---- MODULE Spec2Model ----
(***************************************************************************)
(* Model of src/black/report.py: the two run reporters, Report and         *)
(* JunitReport.  One reporter object is constructed per run (ReportType is *)
(* the union of the two classes), fed done / failed / path_ignored calls   *)
(* by a sequential caller, and queried for return_code and its renderings. *)
(*                                                                         *)
(* Text is modelled as a sequence of chunks (TLA+ strings): the empty text *)
(* is << >>, concatenation is \o, and a template is a text some of whose   *)
(* chunks are placeholders ("{file}", "{msg}", ...) that str.format        *)
(* replaces.                                                               *)
(***************************************************************************)
EXTENDS Integers, Sequences, FiniteSets, TLC

VARIABLES kind, self, stdout, stderr, calls, ret

vars == <<kind, self, stdout, stderr, calls, ret>>

(* ---------------- bounds of the model ---------------- *)

\* number of done / failed / path_ignored calls made on one reporter
MaxCalls == 3

Paths == {<<"a.py">>, <<"b.py">>}

Messages == {<<"boom">>}

(* ---------------- class Changed ---------------- *)

Changed == {"NO", "CACHED", "YES"}

(* ---------------- text helpers ---------------- *)

\* str(int) for the non-negative counters
IntToStr(n) == <<ToString(n)>>

\* str.join
RECURSIVE Join(_, _)
Join(sep, parts) ==
    IF parts = <<>> THEN <<>>
    ELSE IF Len(parts) = 1 THEN Head(parts)
    ELSE Head(parts) \o sep \o Join(sep, Tail(parts))

\* str.format: every placeholder chunk that args names is replaced by its
\* argument; arguments the template does not mention are dropped
RECURSIVE Format(_, _)
Format(template, args) ==
    IF template = <<>> THEN <<>>
    ELSE (IF Head(template) \in DOMAIN args
             THEN args[Head(template)]
             ELSE <<Head(template)>>)
         \o Format(Tail(template), args)

\* click.style: the colour code, then the bold code, the text, and a reset
style(text, bold, fg) ==
    (IF fg = "none" THEN <<>> ELSE <<"ESC[" \o fg \o "]">>)
    \o (IF bold THEN <<"ESC[bold]">> ELSE <<>>)
    \o text
    \o <<"ESC[reset]">>

\* black.output.out / err: one line written at once to the channel
out(w, msg, bold) ==
    [w EXCEPT !.stdout = Append(@, [msg |-> msg, bold |-> bold])]

err(w, msg) ==
    [w EXCEPT !.stderr = Append(@, [msg |-> msg])]

(* ---------------- class Report ---------------- *)

Report(check, diff, quiet, verbose) ==
    [check |-> check, diff |-> diff, quiet |-> quiet, verbose |-> verbose,
     change_count |-> 0, same_count |-> 0, failure_count |-> 0]

\* Report.done with the CACHED outcome left out of same_count
Report_done_CachedNotCounted(w, src, changed) ==
    IF changed = "YES"
    THEN LET reformatted == IF w.self.check \/ w.self.diff
                               THEN <<"would reformat">>
                               ELSE <<"reformatted">>
             w1 == IF w.self.verbose \/ ~w.self.quiet
                      THEN out(w, reformatted \o <<" ">> \o src, TRUE)
                      ELSE w
         IN  [w1 EXCEPT !.self.change_count = @ + 1]
    ELSE LET msg == IF changed = "NO"
                       THEN src \o <<" already well formatted, good job.">>
                       ELSE src \o <<" wasn't modified on disk since last run.">>
             w1 == IF w.self.verbose THEN out(w, msg, FALSE) ELSE w
         IN  IF changed = "NO" THEN [w1 EXCEPT !.self.same_count = @ + 1] ELSE w1

\* Report.done with the increment of change_count indented under the
\* "verbose or not quiet" test
Report_done_CountOnEmit(w, src, changed) ==
    IF changed = "YES"
    THEN LET reformatted == IF w.self.check \/ w.self.diff
                               THEN <<"would reformat">>
                               ELSE <<"reformatted">>
         IN  IF w.self.verbose \/ ~w.self.quiet
                THEN [out(w, reformatted \o <<" ">> \o src, TRUE)
                         EXCEPT !.self.change_count = @ + 1]
                ELSE w
    ELSE LET msg == IF changed = "NO"
                       THEN src \o <<" already well formatted, good job.">>
                       ELSE src \o <<" wasn't modified on disk since last run.">>
             w1 == IF w.self.verbose THEN out(w, msg, FALSE) ELSE w
         IN  [w1 EXCEPT !.self.same_count = @ + 1]

\* Report.done writing the line of a changed file only when not quiet
Report_done_QuietWins(w, src, changed) ==
    IF changed = "YES"
    THEN LET reformatted == IF w.self.check \/ w.self.diff
                               THEN <<"would reformat">>
                               ELSE <<"reformatted">>
             w1 == IF ~w.self.quiet
                      THEN out(w, reformatted \o <<" ">> \o src, TRUE)
                      ELSE w
         IN  [w1 EXCEPT !.self.change_count = @ + 1]
    ELSE LET msg == IF changed = "NO"
                       THEN src \o <<" already well formatted, good job.">>
                       ELSE src \o <<" wasn't modified on disk since last run.">>
             w1 == IF w.self.verbose THEN out(w, msg, FALSE) ELSE w
         IN  [w1 EXCEPT !.self.same_count = @ + 1]

Report_done(w, src, changed) ==
    IF changed = "YES"
    THEN LET reformatted == IF w.self.check \/ w.self.diff
                               THEN <<"would reformat">>
                               ELSE <<"reformatted">>
             w1 == IF w.self.verbose \/ ~w.self.quiet
                      THEN out(w, reformatted \o <<" ">> \o src, TRUE)
                      ELSE w
         IN  [w1 EXCEPT !.self.change_count = @ + 1]
    ELSE LET msg == IF changed = "NO"
                       THEN src \o <<" already well formatted, good job.">>
                       ELSE src \o <<" wasn't modified on disk since last run.">>
             w1 == IF w.self.verbose THEN out(w, msg, FALSE) ELSE w
         IN  [w1 EXCEPT !.self.same_count = @ + 1]

\* Report.failed keeping silent under quiet
Report_failed_QuietSilent(w, src, message) ==
    LET w1 == IF w.self.quiet
                 THEN w
                 ELSE err(w, <<"error: cannot format ">> \o src \o <<": ">> \o message)
    IN  [w1 EXCEPT !.self.failure_count = @ + 1]

Report_failed(w, src, message) ==
    LET w1 == err(w, <<"error: cannot format ">> \o src \o <<": ">> \o message)
    IN  [w1 EXCEPT !.self.failure_count = @ + 1]

\* Report.path_ignored counting the ignored path as an unchanged file
Report_path_ignored_CountsSame(w, path, message) ==
    LET w1 == IF w.self.verbose
                 THEN out(w, path \o <<" ignored: ">> \o message, FALSE)
                 ELSE w
    IN  [w1 EXCEPT !.self.same_count = @ + 1]

Report_path_ignored(w, path, message) ==
    IF w.self.verbose
    THEN out(w, path \o <<" ignored: ">> \o message, FALSE)
    ELSE w

\* Report.return_code with the test of check forgotten
Report_return_code_NoCheck(s) ==
    IF s.failure_count # 0 THEN 123
    ELSE IF s.change_count # 0 THEN 1
    ELSE 0

Report_return_code(s) ==
    IF s.failure_count # 0 THEN 123
    ELSE IF s.change_count # 0 /\ s.check THEN 1
    ELSE 0

\* Report.__str__ with the plural taken for every non-zero counter
Report_str_PluralFromOne(s) ==
    LET would == s.check \/ s.diff
        reformatted == IF would THEN <<"would be reformatted">> ELSE <<"reformatted">>
        unchanged == IF would THEN <<"would be left unchanged">> ELSE <<"left unchanged">>
        failed == IF would THEN <<"would fail to reformat">> ELSE <<"failed to reformat">>
        plural(n) == IF n > 0 THEN <<"s">> ELSE <<>>
        r1 == IF s.change_count # 0
              THEN <<style(IntToStr(s.change_count) \o <<" file">>
                             \o plural(s.change_count) \o <<" ">>, TRUE, "blue")
                     \o style(reformatted, TRUE, "none")>>
              ELSE <<>>
        r2 == IF s.same_count # 0
              THEN <<style(IntToStr(s.same_count) \o <<" file">>
                             \o plural(s.same_count) \o <<" ">>, FALSE, "blue")
                     \o unchanged>>
              ELSE <<>>
        r3 == IF s.failure_count # 0
              THEN <<style(IntToStr(s.failure_count) \o <<" file">>
                             \o plural(s.failure_count) \o <<" ">> \o failed,
                           FALSE, "red")>>
              ELSE <<>>
    IN  Join(<<", ">>, r1 \o r2 \o r3) \o <<".">>

Report_str(s) ==
    LET would == s.check \/ s.diff
        reformatted == IF would THEN <<"would be reformatted">> ELSE <<"reformatted">>
        unchanged == IF would THEN <<"would be left unchanged">> ELSE <<"left unchanged">>
        failed == IF would THEN <<"would fail to reformat">> ELSE <<"failed to reformat">>
        plural(n) == IF n > 1 THEN <<"s">> ELSE <<>>
        r1 == IF s.change_count # 0
              THEN <<style(IntToStr(s.change_count) \o <<" file">>
                             \o plural(s.change_count) \o <<" ">>, TRUE, "blue")
                     \o style(reformatted, TRUE, "none")>>
              ELSE <<>>
        r2 == IF s.same_count # 0
              THEN <<style(IntToStr(s.same_count) \o <<" file">>
                             \o plural(s.same_count) \o <<" ">>, FALSE, "blue")
                     \o unchanged>>
              ELSE <<>>
        r3 == IF s.failure_count # 0
              THEN <<style(IntToStr(s.failure_count) \o <<" file">>
                             \o plural(s.failure_count) \o <<" ">> \o failed,
                           FALSE, "red")>>
              ELSE <<>>
    IN  Join(<<", ">>, r1 \o r2 \o r3) \o <<".">>

(* ---------------- class JunitReport ---------------- *)

JunitReport(check, diff, quiet, verbose) ==
    [check |-> check, diff |-> diff, quiet |-> quiet, verbose |-> verbose,
     change_count |-> 0, same_count |-> 0, skipped_count |-> 0,
     failure_count |-> 0, error_count |-> 0, tests |-> <<>>]

BODY ==
    <<"<?xml version=\"1.0\" encoding=\"utf-8\"?>\n<testsuite failures=\"",
      "{failed}", "\" errors=\"", "{errors}",
      "\" name=\"black\"\nskipped=\"", "{skipped}",
      "\" tests=\"", "{combined}", "\">\n", "{tests}", "</testsuite>">>

TESTCASE_OPEN == "\t<testcase classname=\"black\" file=\""

PASS_MSG ==
    <<TESTCASE_OPEN, "{file}", "\"\n    name=\"black-", "{file}",
      "\"></testcase>\n">>

SKIP_MSG ==
    <<TESTCASE_OPEN, "{file}", "\"\n    name=\"black-", "{file}",
      "\">\n            <skipped message=\"", "{msg}",
      "\" />\n    </testcase>\n">>

FAIL_MSG ==
    <<TESTCASE_OPEN, "{file}", "\"\n    name=\"black-", "{file}",
      "\">\n            <failure message=\"", "{msg}",
      "\" />\n    </testcase>\n">>

ERROR_MSG ==
    <<TESTCASE_OPEN, "{file}", "\"\n    name=\"black-", "{file}",
      "\">\n            <error message=\"", "{msg}",
      "\" />\n    </testcase>\n">>

FileMsg(file, msg) == ("{file}" :> file) @@ ("{msg}" :> msg)

\* JunitReport.done counting as Report.done does
JunitReport_done_Increment(w, src, changed) ==
    IF changed = "YES"
    THEN LET reformatted == IF w.self.check \/ w.self.diff
                               THEN <<"would reformat">>
                               ELSE <<"reformatted">>
             w1 == IF w.self.verbose \/ ~w.self.quiet
                      THEN [w EXCEPT !.self.tests =
                              Append(@, Format(FAIL_MSG, FileMsg(src, reformatted)))]
                      ELSE w
         IN  [w1 EXCEPT !.self.change_count = @ + 1]
    ELSE LET msg == IF changed = "NO"
                       THEN src \o <<" already well formatted, good job.">>
                       ELSE src \o <<" wasn't modified on disk since last run.">>
             w1 == [w EXCEPT !.self.tests =
                      Append(@, Format(PASS_MSG, FileMsg(src, msg)))]
         IN  [w1 EXCEPT !.self.same_count = @ + 1]

\* JunitReport.done appending the pass fragment only under verbose, as
\* Report.done writes its line
JunitReport_done_PassIfVerbose(w, src, changed) ==
    IF changed = "YES"
    THEN LET reformatted == IF w.self.check \/ w.self.diff
                               THEN <<"would reformat">>
                               ELSE <<"reformatted">>
             w1 == IF w.self.verbose \/ ~w.self.quiet
                      THEN [w EXCEPT !.self.tests =
                              Append(@, Format(FAIL_MSG, FileMsg(src, reformatted)))]
                      ELSE w
         IN  [w1 EXCEPT !.self.change_count = 1]
    ELSE LET msg == IF changed = "NO"
                       THEN src \o <<" already well formatted, good job.">>
                       ELSE src \o <<" wasn't modified on disk since last run.">>
             w1 == IF w.self.verbose
                      THEN [w EXCEPT !.self.tests =
                              Append(@, Format(PASS_MSG, FileMsg(src, msg)))]
                      ELSE w
         IN  [w1 EXCEPT !.self.same_count = 1]

\* JunitReport.done keeping change_count and same_count exclusive, each
\* branch clearing the other counter
JunitReport_done_Exclusive(w, src, changed) ==
    IF changed = "YES"
    THEN LET reformatted == IF w.self.check \/ w.self.diff
                               THEN <<"would reformat">>
                               ELSE <<"reformatted">>
             w1 == IF w.self.verbose \/ ~w.self.quiet
                      THEN [w EXCEPT !.self.tests =
                              Append(@, Format(FAIL_MSG, FileMsg(src, reformatted)))]
                      ELSE w
         IN  [w1 EXCEPT !.self.change_count = 1, !.self.same_count = 0]
    ELSE LET msg == IF changed = "NO"
                       THEN src \o <<" already well formatted, good job.">>
                       ELSE src \o <<" wasn't modified on disk since last run.">>
             w1 == [w EXCEPT !.self.tests =
                      Append(@, Format(PASS_MSG, FileMsg(src, msg)))]
         IN  [w1 EXCEPT !.self.same_count = 1, !.self.change_count = 0]

\* JunitReport.done with the assignment of change_count indented under the
\* "verbose or not quiet" test
JunitReport_done_FlagOnAppend(w, src, changed) ==
    IF changed = "YES"
    THEN LET reformatted == IF w.self.check \/ w.self.diff
                               THEN <<"would reformat">>
                               ELSE <<"reformatted">>
         IN  IF w.self.verbose \/ ~w.self.quiet
                THEN [w EXCEPT !.self.tests =
                        Append(@, Format(FAIL_MSG, FileMsg(src, reformatted))),
                               !.self.change_count = 1]
                ELSE w
    ELSE LET msg == IF changed = "NO"
                       THEN src \o <<" already well formatted, good job.">>
                       ELSE src \o <<" wasn't modified on disk since last run.">>
             w1 == [w EXCEPT !.self.tests =
                      Append(@, Format(PASS_MSG, FileMsg(src, msg)))]
         IN  [w1 EXCEPT !.self.same_count = 1]

JunitReport_done(w, src, changed) ==
    IF changed = "YES"
    THEN LET reformatted == IF w.self.check \/ w.self.diff
                               THEN <<"would reformat">>
                               ELSE <<"reformatted">>
             w1 == IF w.self.verbose \/ ~w.self.quiet
                      THEN [w EXCEPT !.self.tests =
                              Append(@, Format(FAIL_MSG, FileMsg(src, reformatted)))]
                      ELSE w
         IN  [w1 EXCEPT !.self.change_count = 1]
    ELSE LET msg == IF changed = "NO"
                       THEN src \o <<" already well formatted, good job.">>
                       ELSE src \o <<" wasn't modified on disk since last run.">>
             w1 == [w EXCEPT !.self.tests =
                      Append(@, Format(PASS_MSG, FileMsg(src, msg)))]
         IN  [w1 EXCEPT !.self.same_count = 1]

\* JunitReport.failed also writing the error line, as Report.failed does
JunitReport_failed_Err(w, src, message) ==
    LET msg == <<"error: cannot format ">> \o src \o <<": ">> \o message
        w1 == [err(w, msg) EXCEPT !.self.tests =
                 Append(@, Format(ERROR_MSG, FileMsg(src, msg)))]
    IN  [w1 EXCEPT !.self.failure_count = 1]

\* JunitReport.failed putting its fragment in front of the list
JunitReport_failed_Prepend(w, src, message) ==
    LET msg == <<"error: cannot format ">> \o src \o <<": ">> \o message
        w1 == [w EXCEPT !.self.tests =
                 <<Format(ERROR_MSG, FileMsg(src, msg))>> \o @]
    IN  [w1 EXCEPT !.self.failure_count = 1]

\* JunitReport.failed counting as Report.failed does
JunitReport_failed_Increment(w, src, message) ==
    LET msg == <<"error: cannot format ">> \o src \o <<": ">> \o message
        w1 == [w EXCEPT !.self.tests =
                 Append(@, Format(ERROR_MSG, FileMsg(src, msg)))]
    IN  [w1 EXCEPT !.self.failure_count = @ + 1]

JunitReport_failed(w, src, message) ==
    LET msg == <<"error: cannot format ">> \o src \o <<": ">> \o message
        w1 == [w EXCEPT !.self.tests =
                 Append(@, Format(ERROR_MSG, FileMsg(src, msg)))]
    IN  [w1 EXCEPT !.self.failure_count = 1]

\* JunitReport.path_ignored with only the count under the verbose test
JunitReport_path_ignored_AlwaysAppend(w, path, message) ==
    LET msg == path \o <<" ignored: ">> \o message
        w1 == [w EXCEPT !.self.tests =
                 Append(@, Format(SKIP_MSG, FileMsg(path, msg)))]
    IN  IF w.self.verbose
        THEN [w1 EXCEPT !.self.skipped_count = @ + 1]
        ELSE w1

\* JunitReport.path_ignored without the increment of skipped_count
JunitReport_path_ignored_NoCount(w, path, message) ==
    IF w.self.verbose
    THEN LET msg == path \o <<" ignored: ">> \o message
         IN  [w EXCEPT !.self.tests =
                Append(@, Format(SKIP_MSG, FileMsg(path, msg)))]
    ELSE w

JunitReport_path_ignored(w, path, message) ==
    IF w.self.verbose
    THEN LET msg == path \o <<" ignored: ">> \o message
             w1 == [w EXCEPT !.self.tests =
                      Append(@, Format(SKIP_MSG, FileMsg(path, msg)))]
         IN  [w1 EXCEPT !.self.skipped_count = @ + 1]
    ELSE w

\* JunitReport.return_code with the two tests in the other order
JunitReport_return_code_ChangeFirst(s) ==
    IF s.change_count # 0 /\ s.check THEN 1
    ELSE IF s.failure_count # 0 THEN 123
    ELSE 0

JunitReport_return_code(s) ==
    IF s.failure_count # 0 THEN 123
    ELSE IF s.change_count # 0 /\ s.check THEN 1
    ELSE 0

\* JunitReport.__str__ with failures and errors filled from the other counter
JunitReport_str_Swapped(s) ==
    LET combined_tests == s.change_count + s.same_count
                          + s.failure_count + s.skipped_count
    IN  Format(BODY,
               ("{failed}" :> IntToStr(s.failure_count))
               @@ ("{errors}" :> IntToStr(s.change_count))
               @@ ("{skipped}" :> IntToStr(s.skipped_count))
               @@ ("{combined}" :> IntToStr(combined_tests))
               @@ ("{tests}" :> Join(<<>>, s.tests)))

JunitReport_str(s) ==
    LET combined_tests == s.change_count + s.same_count
                          + s.failure_count + s.skipped_count
    IN  Format(BODY,
               ("{failed}" :> IntToStr(s.change_count))
               @@ ("{errors}" :> IntToStr(s.failure_count))
               @@ ("{skipped}" :> IntToStr(s.skipped_count))
               @@ ("{combined}" :> IntToStr(combined_tests))
               @@ ("{tests}" :> Join(<<>>, s.tests)))

JunitReport_summary(s) ==
    LET would == s.check \/ s.diff
        reformatted == IF would THEN <<"would be reformatted">> ELSE <<"reformatted">>
        unchanged == IF would THEN <<"would be left unchanged">> ELSE <<"left unchanged">>
        failed == IF would THEN <<"would fail to reformat">> ELSE <<"failed to reformat">>
        plural(n) == IF n > 1 THEN <<"s">> ELSE <<>>
        r1 == IF s.change_count # 0
              THEN <<style(IntToStr(s.change_count) \o <<" file">>
                             \o plural(s.change_count) \o <<" ">> \o reformatted,
                           TRUE, "none")>>
              ELSE <<>>
        r2 == IF s.same_count # 0
              THEN <<IntToStr(s.same_count) \o <<" file">>
                       \o plural(s.same_count) \o <<" ">> \o unchanged>>
              ELSE <<>>
        r3 == IF s.failure_count # 0
              THEN <<style(IntToStr(s.failure_count) \o <<" file">>
                             \o plural(s.failure_count) \o <<" ">> \o failed,
                           FALSE, "red")>>
              ELSE <<>>
    IN  Join(<<", ">>, r1 \o r2 \o r3) \o <<".">>

(* ---------------- the state machine ---------------- *)

World == [self |-> self, stdout |-> stdout, stderr |-> stderr]

None == [op |-> "None"]

\* a record call returns None, changes the reporter and the two channels,
\* and is remembered in the call history
Called(w, call) ==
    /\ self' = w.self
    /\ stdout' = w.stdout
    /\ stderr' = w.stderr
    /\ calls' = Append(calls, call)
    /\ ret' = None
    /\ UNCHANGED kind

\* a query returns a value and changes nothing else
Returned(op, val) ==
    /\ ret' = [op |-> op, val |-> val]
    /\ UNCHANGED <<kind, self, stdout, stderr, calls>>

Init ==
    /\ kind \in {"Report", "JunitReport"}
    /\ \E check \in BOOLEAN, diff \in BOOLEAN, quiet \in BOOLEAN, verbose \in BOOLEAN :
          self = IF kind = "Report"
                    THEN Report(check, diff, quiet, verbose)
                    ELSE JunitReport(check, diff, quiet, verbose)
    /\ stdout = <<>>
    /\ stderr = <<>>
    /\ calls = <<>>
    /\ ret = None

ReportDone ==
    /\ kind = "Report"
    /\ Len(calls) < MaxCalls
    /\ \E src \in Paths, changed \in Changed :
          Called(Report_done(World, src, changed),
                 [op |-> "done", path |-> src, arg |-> changed])

ReportFailed ==
    /\ kind = "Report"
    /\ Len(calls) < MaxCalls
    /\ \E src \in Paths, message \in Messages :
          Called(Report_failed(World, src, message),
                 [op |-> "failed", path |-> src, arg |-> message])

ReportPathIgnored ==
    /\ kind = "Report"
    /\ Len(calls) < MaxCalls
    /\ \E path \in Paths, message \in Messages :
          Called(Report_path_ignored(World, path, message),
                 [op |-> "path_ignored", path |-> path, arg |-> message])

ReportReturnCode ==
    /\ kind = "Report"
    /\ Returned("return_code", Report_return_code(self))

ReportStr ==
    /\ kind = "Report"
    /\ Returned("__str__", Report_str(self))

JunitDone ==
    /\ kind = "JunitReport"
    /\ Len(calls) < MaxCalls
    /\ \E src \in Paths, changed \in Changed :
          Called(JunitReport_done(World, src, changed),
                 [op |-> "done", path |-> src, arg |-> changed])

JunitFailed ==
    /\ kind = "JunitReport"
    /\ Len(calls) < MaxCalls
    /\ \E src \in Paths, message \in Messages :
          Called(JunitReport_failed(World, src, message),
                 [op |-> "failed", path |-> src, arg |-> message])

JunitPathIgnored ==
    /\ kind = "JunitReport"
    /\ Len(calls) < MaxCalls
    /\ \E path \in Paths, message \in Messages :
          Called(JunitReport_path_ignored(World, path, message),
                 [op |-> "path_ignored", path |-> path, arg |-> message])

JunitReturnCode ==
    /\ kind = "JunitReport"
    /\ Returned("return_code", JunitReport_return_code(self))

JunitStr ==
    /\ kind = "JunitReport"
    /\ Returned("__str__", JunitReport_str(self))

JunitSummary ==
    /\ kind = "JunitReport"
    /\ Returned("summary", JunitReport_summary(self))

Next ==
    \/ ReportDone
    \/ ReportFailed
    \/ ReportPathIgnored
    \/ ReportReturnCode
    \/ ReportStr
    \/ JunitDone
    \/ JunitFailed
    \/ JunitPathIgnored
    \/ JunitReturnCode
    \/ JunitStr
    \/ JunitSummary

Spec == Init /\ [][Next]_vars

(* ---------------- reading the state and the call history ---------------- *)

IsReport == kind = "Report"

IsJunit == kind = "JunitReport"

\* the exit code the reporter would return in the current state
RC == IF IsReport THEN Report_return_code(self) ELSE JunitReport_return_code(self)

CallIdx == 1..Len(calls)

IsDone(c) == c.op = "done"

IsDoneYes(c) == c.op = "done" /\ c.arg = "YES"

IsDoneSame(c) == c.op = "done" /\ c.arg \in {"NO", "CACHED"}

IsFailed(c) == c.op = "failed"

IsIgnored(c) == c.op = "path_ignored"

NumDone == Cardinality({i \in CallIdx : IsDone(calls[i])})

NumDoneYes == Cardinality({i \in CallIdx : IsDoneYes(calls[i])})

NumDoneSame == Cardinality({i \in CallIdx : IsDoneSame(calls[i])})

NumFailed == Cardinality({i \in CallIdx : IsFailed(calls[i])})

NumIgnored == Cardinality({i \in CallIdx : IsIgnored(calls[i])})

Ceil1(n) == IF n > 0 THEN 1 ELSE 0

(* ---------------- C1 ---------------- *)

\* C1: in every reachable state of Report and of JunitReport, return_code is
\* 123 if failure_count > 0, otherwise 1 if change_count > 0 and check,
\* otherwise 0; a returned exit code is that value; with check false the
\* exit code is never 1, even with diff true and changed files.
C1_ReturnCode ==
    LET expected == IF self.failure_count > 0 THEN 123
                    ELSE IF self.change_count > 0 /\ self.check THEN 1
                    ELSE 0
    IN  /\ RC = expected
        /\ ret.op = "return_code" => ret.val = expected
        /\ ~self.check => RC # 1

C1_Witness ==
    /\ ret.op = "return_code"
    /\ ~self.check
    /\ self.diff
    /\ self.change_count > 0
    /\ self.failure_count = 0
    /\ ret.val = 0

(* ---------------- C2 ---------------- *)

\* C2: for both reporters and every flag configuration, once failed() has
\* been called, return_code is 123 in that state and in every later state,
\* whatever done / failed / path_ignored calls follow.
C2_FailureDominates ==
    (\E i \in CallIdx : IsFailed(calls[i])) =>
        /\ RC = 123
        /\ ret.op = "return_code" => ret.val = 123

C2_Witness ==
    /\ IsJunit
    /\ self.check
    /\ \E i \in CallIdx, j \in CallIdx :
          i < j /\ IsFailed(calls[i]) /\ IsDoneYes(calls[j])
    /\ ret.op = "return_code"
    /\ ret.val = 123

(* ---------------- C3 ---------------- *)

\* C3: for Report, after any sequence of done / failed / path_ignored calls
\* on a fresh instance, change_count is the number of done(_, YES) calls,
\* same_count the number of done(_, NO | CACHED) calls, their sum the number
\* of done calls, and failure_count the number of failed calls.
C3_ReportCounts ==
    IsReport =>
        /\ self.change_count = NumDoneYes
        /\ self.same_count = NumDoneSame
        /\ self.change_count + self.same_count = NumDone
        /\ self.failure_count = NumFailed

C3_Witness ==
    /\ IsReport
    /\ NumIgnored = 1
    /\ \E i \in CallIdx : IsDone(calls[i]) /\ calls[i].arg = "CACHED"
    /\ self.failure_count = 1

(* ---------------- C4 ---------------- *)

\* C4: for Report, after N done(_, YES) calls and nothing else, change_count
\* is N and return_code is 1 if check is true and N > 0, and 0 otherwise,
\* whatever diff, quiet and verbose are.
C4_ChangedOnly ==
    (IsReport /\ \A i \in CallIdx : IsDoneYes(calls[i])) =>
        /\ self.change_count = Len(calls)
        /\ RC = IF self.check /\ Len(calls) > 0 THEN 1 ELSE 0
        /\ RC = 1 <=> (self.check /\ Len(calls) > 0)

C4_Witness ==
    /\ IsReport
    /\ Len(calls) = 2
    /\ \A i \in CallIdx : IsDoneYes(calls[i])
    /\ self.check
    /\ self.quiet
    /\ ret.op = "return_code"
    /\ ret.val = 1

(* ---------------- C5 ---------------- *)

Has(t, chunk) == \E i \in 1..Len(t) : t[i] = chunk

\* position of the first occurrence of chunk in t, 0 when there is none
IndexOf(t, chunk) ==
    IF Has(t, chunk)
    THEN CHOOSE i \in 1..Len(t) : t[i] = chunk /\ \A j \in 1..(i - 1) : t[j] # chunk
    ELSE 0

Last(t) == t[Len(t)]

\* the number a decimal text stands for, -1 when it is not one
StrToInt(c) ==
    IF \E n \in 0..(4 * MaxCalls + 4) : ToString(n) = c
    THEN CHOOSE n \in 0..(4 * MaxCalls + 4) : ToString(n) = c
    ELSE -1

\* the value of the attribute that follows the given opening text
Attr(doc, opening) ==
    IF Has(doc, opening) /\ IndexOf(doc, opening) < Len(doc)
    THEN StrToInt(doc[IndexOf(doc, opening) + 1])
    ELSE -1

\* what stands between the testsuite start tag and its end tag
DocBody(doc) == SubSeq(doc, IndexOf(doc, "\">\n") + 1, Len(doc) - 1)

\* a text cut in front of every test-case opening
RECURSIVE Fragments(_)
Fragments(t) ==
    IF t = <<>> THEN <<>>
    ELSE LET later == {j \in 2..Len(t) : t[j] = TESTCASE_OPEN}
             n == IF later = {} THEN Len(t) + 1
                  ELSE CHOOSE j \in later : \A k \in later : j <= k
         IN  <<SubSeq(t, 1, n - 1)>> \o Fragments(SubSeq(t, n, Len(t)))

FragKind(f) ==
    IF Has(f, "\">\n            <failure message=\"") THEN "failure"
    ELSE IF Has(f, "\">\n            <error message=\"") THEN "error"
    ELSE IF Has(f, "\">\n            <skipped message=\"") THEN "skipped"
    ELSE IF f # <<>> /\ Last(f) = "\"></testcase>\n" THEN "pass"
    ELSE "unknown"

\* the file attribute of a test-case fragment
FragFile(f) == SubSeq(f, 2, IndexOf(f, "\"\n    name=\"black-") - 1)

\* the message attribute of the child element of a test-case fragment
FragMsg(f) ==
    LET i == CHOOSE k \in 1..Len(f) :
                 f[k] \in {"\">\n            <failure message=\"",
                           "\">\n            <error message=\"",
                           "\">\n            <skipped message=\""}
    IN  SubSeq(f, i + 1, Len(f) - 1)

(* ---------------- C6 ---------------- *)

DocMatchesCounters(doc) ==
    /\ Attr(doc, "<?xml version=\"1.0\" encoding=\"utf-8\"?>\n<testsuite failures=\"")
          = self.change_count
    /\ Attr(doc, "\" errors=\"") = self.failure_count
    /\ Attr(doc, "\" name=\"black\"\nskipped=\"") = self.skipped_count
    /\ Attr(doc, "\" tests=\"")
          = self.change_count + self.same_count
            + self.failure_count + self.skipped_count
    /\ Last(doc) = "</testsuite>"
    /\ Fragments(DocBody(doc)) = self.tests

\* C6: for JunitReport in every reachable state, the rendered testsuite
\* element has failures = change_count, errors = failure_count, skipped =
\* skipped_count and tests = the sum of the four counters, and its body is
\* the fragments of the tests list, in list order.
C6_Render ==
    IsJunit =>
        /\ DocMatchesCounters(JunitReport_str(self))
        /\ ret.op = "__str__" => DocMatchesCounters(ret.val)

C6_Witness ==
    /\ IsJunit
    /\ ret.op = "__str__"
    /\ self.change_count = 1
    /\ self.failure_count = 0
    /\ self.skipped_count = 1
    /\ Len(self.tests) = 3
    /\ Attr(ret.val, "\" tests=\"") = 3

(* ---------------- C7 ---------------- *)

\* whether the call, made on a JunitReport with the flags of self, appends
AppendsFragment(c) ==
    \/ IsFailed(c)
    \/ IsDoneSame(c)
    \/ IsDoneYes(c) /\ (self.verbose \/ ~self.quiet)
    \/ IsIgnored(c) /\ self.verbose

KindOfCall(c) ==
    IF IsFailed(c) THEN "error"
    ELSE IF IsIgnored(c) THEN "skipped"
    ELSE IF IsDoneYes(c) THEN "failure"
    ELSE "pass"

AppendingCalls == SelectSeq(calls, AppendsFragment)

IsPrefix(s, t) == Len(s) <= Len(t) /\ SubSeq(t, 1, Len(s)) = s

TestsInCallOrder ==
    IsJunit =>
        /\ Len(self.tests) = Len(AppendingCalls)
        /\ Len(self.tests)
              = Cardinality({i \in CallIdx : IsDone(calls[i]) /\ AppendsFragment(calls[i])})
                + NumFailed
                + (IF self.verbose THEN NumIgnored ELSE 0)
        /\ \A k \in 1..Len(self.tests) :
              /\ k <= Len(AppendingCalls)
              /\ FragKind(self.tests[k]) = KindOfCall(AppendingCalls[k])
              /\ FragFile(self.tests[k]) = AppendingCalls[k].path

TestsAppendOnly ==
    IsJunit =>
        /\ IsPrefix(self.tests, self'.tests)
        /\ Len(self'.tests) <= Len(self.tests) + 1

\* C7: for JunitReport the tests list is append-only and in call order:
\* every operation leaves the previous list as a prefix of the new one and
\* appends at most one fragment, the fragment of an earlier call precedes
\* that of a later call, and len(tests) is the number of done calls that
\* appended a fragment plus the number of failed calls plus the number of
\* path_ignored calls made with verbose true.
C7_TestsAppendOnly == [][TestsAppendOnly]_vars /\ []TestsInCallOrder

C7_Witness ==
    /\ IsJunit
    /\ self.quiet
    /\ ~self.verbose
    /\ Len(calls) = 3
    /\ IsDoneYes(calls[1])
    /\ IsFailed(calls[2])
    /\ IsDoneSame(calls[3])
    /\ calls[2].path # calls[3].path
    /\ Len(self.tests) = 2

(* ---------------- C8 ---------------- *)

Verb == IF self.check \/ self.diff THEN <<"would reformat">> ELSE <<"reformatted">>

\* a step that is the given kind of call
CallStep(P(_)) == calls' # calls /\ P(Last(calls'))

\* C8: JunitReport.done(path, YES) sets change_count to 1 and, exactly when
\* verbose is true or quiet is false, appends one failure-kind fragment whose
\* message is "would reformat {path}" when check or diff is true and
\* "reformatted {path}" otherwise; with quiet true and verbose false it
\* appends nothing.
C8_DoneYesFragment ==
    [][(IsJunit /\ CallStep(IsDoneYes)) =>
          /\ self'.change_count = 1
          /\ IF self.verbose \/ ~self.quiet
                THEN /\ Len(self'.tests) = Len(self.tests) + 1
                     /\ IsPrefix(self.tests, self'.tests)
                     /\ FragKind(Last(self'.tests)) = "failure"
                     /\ FragMsg(Last(self'.tests))
                           = Verb \o <<" ">> \o Last(calls').path
                ELSE self'.tests = self.tests]_vars

(* ---------------- C9 ---------------- *)

Emitted(old, new) == IF Len(new) > Len(old) THEN SubSeq(new, Len(old) + 1, Len(new)) ELSE <<>>

\* C10: Report.done emits to the standard output channel exactly one line
\* "{verb} {path}" for YES iff verbose is true or quiet is false (verb
\* "would reformat" when check or diff, else "reformatted"), and for NO /
\* CACHED exactly one line ("{path} already well formatted, good job." /
\* "{path} wasn't modified on disk since last run.") iff verbose is true;
\* so with quiet and not verbose no done call emits anything, and with
\* neither flag an unchanged file emits nothing.
C10_ReportDoneOutput ==
    [][(IsReport /\ CallStep(IsDone)) =>
          LET c == Last(calls')
              line == IF c.arg = "YES" THEN Verb \o <<" ">> \o c.path
                      ELSE IF c.arg = "NO"
                           THEN c.path \o <<" already well formatted, good job.">>
                           ELSE c.path \o <<" wasn't modified on disk since last run.">>
              emits == IF c.arg = "YES" THEN self.verbose \/ ~self.quiet
                       ELSE self.verbose
              new == Emitted(stdout, stdout')
          IN  /\ IsPrefix(stdout, stdout')
              /\ emits => Len(new) = 1 /\ new[1].msg = line
              /\ ~emits => stdout' = stdout
              /\ stderr' = stderr
              /\ (self.quiet /\ ~self.verbose) => stdout' = stdout]_vars

C10_Witness ==
    /\ IsReport
    /\ self.quiet
    /\ self.verbose
    /\ self.diff
    /\ ~self.check
    /\ Len(calls) = 2
    /\ IsDoneYes(calls[1])
    /\ IsDoneSame(calls[2])
    /\ calls[2].arg = "CACHED"
    /\ ret = None
    /\ Len(stdout) = 2
    /\ stdout[1].msg = <<"would reformat", " ">> \o calls[1].path

(* ---------------- C11 ---------------- *)

\* C11: Report.failed(path, message) writes exactly one line
\* "error: cannot format {path}: {message}" to the error channel at the
\* moment of the call, for every combination of check, diff, quiet and
\* verbose, and increments failure_count by exactly 1 while leaving
\* change_count and same_count unchanged.
C11_ReportFailed ==
    [][(IsReport /\ CallStep(IsFailed)) =>
          LET c == Last(calls')
              new == Emitted(stderr, stderr')
          IN  /\ IsPrefix(stderr, stderr')
              /\ Len(new) = 1
              /\ new[1].msg = <<"error: cannot format ">> \o c.path
                                 \o <<": ">> \o c.arg
              /\ stdout' = stdout
              /\ self'.failure_count = self.failure_count + 1
              /\ self'.change_count = self.change_count
              /\ self'.same_count = self.same_count]_vars

C11_Witness ==
    /\ IsReport
    /\ self.quiet
    /\ ~self.verbose
    /\ Len(calls) = 2
    /\ IsDoneYes(calls[1])
    /\ IsFailed(calls[2])
    /\ ret = None
    /\ self.failure_count = 1
    /\ self.change_count = 1
    /\ stdout = <<>>
    /\ Len(stderr) = 1
    /\ stderr[1].msg = <<"error: cannot format ">> \o calls[2].path \o <<": ", "boom">>

(* ---------------- C12 ---------------- *)

\* C12: Report.path_ignored(path, message) leaves change_count, same_count
\* and failure_count unchanged in every state, so return_code and the
\* rendered summary stay what they were, and writes "{path} ignored:
\* {message}" to the standard output channel iff verbose is true.
C12_ReportPathIgnored ==
    [][(IsReport /\ CallStep(IsIgnored)) =>
          LET c == Last(calls')
              new == Emitted(stdout, stdout')
          IN  /\ self'.change_count = self.change_count
              /\ self'.same_count = self.same_count
              /\ self'.failure_count = self.failure_count
              /\ Report_return_code(self') = Report_return_code(self)
              /\ Report_str(self') = Report_str(self)
              /\ IsPrefix(stdout, stdout')
              /\ self.verbose => Len(new) = 1
                                 /\ new[1].msg = c.path \o <<" ignored: ">> \o c.arg
              /\ ~self.verbose => stdout' = stdout
              /\ stderr' = stderr]_vars

C12_Witness ==
    /\ IsReport
    /\ self.verbose
    /\ self.check
    /\ Len(calls) = 2
    /\ IsDoneYes(calls[1])
    /\ IsIgnored(calls[2])
    /\ ret = None
    /\ self.change_count = 1
    /\ Len(stdout) = 2
    /\ stdout[2].msg = calls[2].path \o <<" ignored: ", "boom">>
    /\ RC = 1

(* ---------------- C13 ---------------- *)

\* C13: JunitReport writes nothing to the output or the error channel during
\* any done, failed or path_ignored call, for every flag combination: after
\* any sequence of calls both channels are empty.
C13_JunitSilent ==
    IsJunit => stdout = <<>> /\ stderr = <<>>

C13_Witness ==
    /\ IsJunit
    /\ self.verbose
    /\ ~self.quiet
    /\ NumFailed = 1
    /\ NumDoneYes = 1
    /\ NumIgnored = 1
    /\ Len(self.tests) = 3
    /\ stdout = <<>>
    /\ stderr = <<>>

(* ---------------- C14 ---------------- *)

\* click.unstyle: the text without its colour, bold and reset codes
unstyle(t) ==
    LET plain(c) == c \notin {"ESC[blue]", "ESC[red]", "ESC[bold]", "ESC[reset]"}
    IN  SelectSeq(t, plain)

\* the string a text spells, its chunks put end to end
RECURSIVE Flat(_)
Flat(t) == IF t = <<>> THEN "" ELSE Head(t) \o Flat(Tail(t))

Would == self.check \/ self.diff

\* one clause of the summary sentence
Clause(n, phrase) ==
    ToString(n) \o (IF n = 1 THEN " file " ELSE " files ") \o phrase

RECURSIVE CommaJoined(_)
CommaJoined(clauses) ==
    IF clauses = <<>> THEN ""
    ELSE IF Len(clauses) = 1 THEN clauses[1]
    ELSE clauses[1] \o ", " \o CommaJoined(Tail(clauses))

\* the sentence for the three counters: the clauses of the non-zero ones in
\* the order changed, unchanged, failed, then a period
Sentence(changed, same, failed) ==
    CommaJoined(
        (IF changed = 0 THEN <<>>
         ELSE <<Clause(changed, IF Would THEN "would be reformatted"
                                ELSE "reformatted")>>)
        \o (IF same = 0 THEN <<>>
            ELSE <<Clause(same, IF Would THEN "would be left unchanged"
                                ELSE "left unchanged")>>)
        \o (IF failed = 0 THEN <<>>
            ELSE <<Clause(failed, IF Would THEN "would fail to reformat"
                                  ELSE "failed to reformat")>>))
    \o "."

\* C14: for every reachable state of Report, __str__ renders (colours
\* aside) the clauses whose counter is non-zero, in the order changed,
\* unchanged, failed, joined by ", " and ended by "."; a clause reads
\* "1 file ..." for counter 1 and "N files ..." for N > 1; the verb phrases
\* are the "would ..." forms iff check or diff; with all three counters zero
\* the result is ".".
C14_ReportStr ==
    IsReport =>
        LET expected == Sentence(self.change_count, self.same_count,
                                 self.failure_count)
        IN  /\ Flat(unstyle(Report_str(self))) = expected
            /\ ret.op = "__str__" => Flat(unstyle(ret.val)) = expected
            /\ (self.change_count = 0 /\ self.same_count = 0
                  /\ self.failure_count = 0)
                  => Flat(unstyle(Report_str(self))) = "."

C14_Witness ==
    /\ IsReport
    /\ self.diff
    /\ ~self.check
    /\ self.change_count = 2
    /\ self.same_count = 0
    /\ self.failure_count = 1
    /\ ret.op = "__str__"
    /\ Flat(unstyle(ret.val))
          = "2 files would be reformatted, 1 file would fail to reformat."

(* ---------------- C15 ---------------- *)

Flags(s) == <<s.check, s.diff, s.quiet, s.verbose>>

CountersGrow ==
    /\ self'.change_count >= self.change_count
    /\ self'.same_count >= self.same_count
    /\ self'.failure_count >= self.failure_count
    /\ IsJunit => /\ self'.skipped_count >= self.skipped_count
                  /\ self'.error_count >= self.error_count

\* C15: in Report and in JunitReport, across done, failed, path_ignored,
\* return_code and the renderings, no counter ever decreases and check,
\* diff, quiet and verbose keep the values given at construction; the
\* counters (and JunitReport's tests list) are the only fields that change,
\* and return_code and the renderings change no field at all.
C15_MonotoneCounters ==
    [][/\ kind' = kind
       /\ DOMAIN self' = DOMAIN self
       /\ Flags(self') = Flags(self)
       /\ CountersGrow
       /\ ret'.op # "None" => self' = self]_vars

C15_Witness ==
    /\ IsJunit
    /\ self.verbose
    /\ Len(calls) = 3
    /\ IsDoneSame(calls[1])
    /\ IsDoneYes(calls[2])
    /\ IsIgnored(calls[3])
    /\ self.same_count = 1
    /\ self.change_count = 1
    /\ self.skipped_count = 1
    /\ ret.op = "summary"

(* ---------------- C16 ---------------- *)

AtMostOneOfEach == NumDoneYes <= 1 /\ NumDoneSame <= 1 /\ NumFailed <= 1

\* the tests attribute of the document counts its fragments, and the
\* fragments are those of the appending calls, in call order
DocCountsFragments(doc) ==
    LET frags == Fragments(DocBody(doc))
    IN  /\ Attr(doc, "\" tests=\"") = Len(frags)
        /\ Len(frags) = Len(AppendingCalls)
        /\ \A k \in 1..Len(frags) :
              /\ k <= Len(AppendingCalls)
              /\ FragKind(frags[k]) = KindOfCall(AppendingCalls[k])
              /\ FragFile(frags[k]) = AppendingCalls[k].path

\* C16: for JunitReport with quiet false, after any sequence of calls with
\* at most one done(_, YES), at most one done with an unchanged outcome and
\* at most one failed (and any number of path_ignored), the rendered tests
\* attribute equals the number of test-case fragments in the body, and the
\* fragments stand in call order.
C16_TestsAttrCountsFragments ==
    (IsJunit /\ ~self.quiet /\ AtMostOneOfEach) =>
        /\ DocCountsFragments(JunitReport_str(self))
        /\ ret.op = "__str__" => DocCountsFragments(ret.val)

C16_Witness ==
    /\ IsJunit
    /\ ~self.quiet
    /\ ~self.verbose
    /\ Len(calls) = 2
    /\ IsDoneYes(calls[1])
    /\ calls[1].path = <<"a.py">>
    /\ IsFailed(calls[2])
    /\ calls[2].path = <<"b.py">>
    /\ ret.op = "__str__"
    /\ Attr(ret.val, "<?xml version=\"1.0\" encoding=\"utf-8\"?>\n<testsuite failures=\"") = 1
    /\ Attr(ret.val, "\" errors=\"") = 1
    /\ Attr(ret.val, "\" name=\"black\"\nskipped=\"") = 0
    /\ Attr(ret.val, "\" tests=\"") = 2
    /\ FragKind(Fragments(DocBody(ret.val))[1]) = "failure"
    /\ FragKind(Fragments(DocBody(ret.val))[2]) = "error"

(* ---------------- C17 ---------------- *)

\* a fresh reporter of the given class with the flags of self
Fresh(class) ==
    [self |-> IF class = "Report"
                 THEN Report(self.check, self.diff, self.quiet, self.verbose)
                 ELSE JunitReport(self.check, self.diff, self.quiet, self.verbose),
     stdout |-> <<>>,
     stderr |-> <<>>]

\* one recorded call made on a reporter of the given class
Apply(class, w, c) ==
    IF class = "Report"
    THEN IF IsDone(c) THEN Report_done(w, c.path, c.arg)
         ELSE IF IsFailed(c) THEN Report_failed(w, c.path, c.arg)
         ELSE Report_path_ignored(w, c.path, c.arg)
    ELSE IF IsDone(c) THEN JunitReport_done(w, c.path, c.arg)
         ELSE IF IsFailed(c) THEN JunitReport_failed(w, c.path, c.arg)
         ELSE JunitReport_path_ignored(w, c.path, c.arg)

\* the reporter after the calls cs, made in order
RECURSIVE Replay(_, _, _)
Replay(class, w, cs) ==
    IF cs = <<>> THEN w
    ELSE Replay(class, Apply(class, w, Head(cs)), Tail(cs))

AsReport == Replay("Report", Fresh("Report"), calls).self

AsJunit == Replay("JunitReport", Fresh("JunitReport"), calls).self

\* C17: for every configuration of the four flags and every finite sequence
\* of done / failed / path_ignored calls, a Report and a JunitReport built
\* with the same flags and fed the same sequence return the same
\* return_code after every prefix of the sequence.
C17_SameReturnCode ==
    /\ IsReport => AsReport = self
    /\ IsJunit => AsJunit = self
    /\ Report_return_code(AsReport) = JunitReport_return_code(AsJunit)
    /\ ret.op = "return_code" =>
          /\ ret.val = Report_return_code(AsReport)
          /\ ret.val = JunitReport_return_code(AsJunit)

C17_Witness ==
    /\ IsJunit
    /\ self.check
    /\ self.quiet
    /\ ~self.verbose
    /\ NumDoneYes = 2
    /\ NumFailed = 0
    /\ AsReport.change_count = 2
    /\ self.change_count = 1
    /\ ret.op = "return_code"
    /\ ret.val = 1
    /\ Report_return_code(AsReport) = 1

(* ---------------- C18 ---------------- *)

NumFrag(k) ==
    Cardinality({i \in 1..Len(self.tests) : FragKind(self.tests[i]) = k})

====
